---- MODULE Spec2Model ----
(***************************************************************************)
(* Model of mm_web_mobile.py: a Flask ledger application over SQLite.      *)
(*                                                                         *)
(* Text is modelled as a sequence of characters.  The ten Myanmar digit    *)
(* glyphs are written "M0" .. "M9"; Burmese captions are written as one    *)
(* token each.  An amount is a Python float: a finite value is kept as a   *)
(* whole number of halves (0.5 is exact in binary floating point, so sums  *)
(* of the modelled amounts are exact), and the infinities and NaN are kept *)
(* as separate kinds.                                                      *)
(***************************************************************************)
EXTENDS Integers, Sequences, FiniteSets, TLC

VARIABLES users, expenses, incomes, month_summary,
          user_seq, exp_seq, inc_seq, ms_seq,
          session, flash,
          closing,    \* a close-month request of a second session, in flight
          call        \* a helper applied on its own: its argument and result

vars == <<users, expenses, incomes, month_summary,
          user_seq, exp_seq, inc_seq, ms_seq, session, flash, closing, call>>

-----------------------------------------------------------------------------
(* Bounds of the model *)

MaxAdds == 1
MaxClosures == 2
CloseMaxAdds == 2
CloseMaxClosures == 2
EntryMaxAdds == 2
LedgerMaxAdds == 3
MarkMaxAdds == 2
MarkMaxClosures == 1
AcctMaxAdds == 2
MaxLen == 3
BalanceMaxAdds == 3
RaceMaxAdds == 2

-----------------------------------------------------------------------------
(* Characters and strings *)

MM_DIGITS == <<"M0", "M1", "M2", "M3", "M4", "M5", "M6", "M7", "M8", "M9">>
EN_DIGITS == <<"0", "1", "2", "3", "4", "5", "6", "7", "8", "9">>

Str(s) == <<s>>

IsSpace(c) == c = " "

\* str.translate(str.maketrans(src, dst)) on one character
TranslateChar(src, dst, c) ==
    IF \E i \in 1..Len(src) : src[i] = c
    THEN dst[CHOOSE i \in 1..Len(src) : src[i] = c]
    ELSE c

Translate(src, dst, s) == [i \in 1..Len(s) |-> TranslateChar(src, dst, s[i])]

\* str.replace(c, "")
RECURSIVE RemoveChar(_, _)
RemoveChar(s, c) ==
    IF s = <<>> THEN <<>>
    ELSE IF Head(s) = c THEN RemoveChar(Tail(s), c)
    ELSE <<Head(s)>> \o RemoveChar(Tail(s), c)

RECURSIVE LStrip(_)
LStrip(s) ==
    IF s = <<>> THEN <<>>
    ELSE IF IsSpace(Head(s)) THEN LStrip(Tail(s))
    ELSE s

RECURSIVE RStrip(_)
RStrip(s) ==
    IF s = <<>> THEN <<>>
    ELSE IF IsSpace(s[Len(s)]) THEN RStrip(SubSeq(s, 1, Len(s) - 1))
    ELSE s

\* str.strip()
Strip(s) == RStrip(LStrip(s))

\* decimal digits of a natural number
RECURSIVE NatDigits(_)
NatDigits(n) ==
    IF n < 10 THEN <<EN_DIGITS[n + 1]>>
    ELSE NatDigits(n \div 10) \o <<EN_DIGITS[(n % 10) + 1]>>

\* str(n) for an int
IntStr(n) == IF n < 0 THEN <<"-">> \o NatDigits(-n) ELSE NatDigits(n)

\* the "," format option: a comma before every group of three digits
RECURSIVE GroupThousands(_)
GroupThousands(ds) ==
    IF Len(ds) <= 3 THEN ds
    ELSE GroupThousands(SubSeq(ds, 1, Len(ds) - 3)) \o <<",">>
         \o SubSeq(ds, Len(ds) - 2, Len(ds))

\* f"{n:02d}" for 0 <= n
Pad2(n) == IF n < 10 THEN <<"0">> \o NatDigits(n) ELSE NatDigits(n)

-----------------------------------------------------------------------------
(* Floats: <<kind, halves>> *)

Fin(h) == <<"fin", h>>
PInf == <<"inf", 0>>
NInf == <<"-inf", 0>>
NaN == <<"nan", 0>>
Zero == Fin(0)

IsFin(x) == x[1] = "fin"

FNeg(x) ==
    CASE x[1] = "fin" -> Fin(-x[2])
      [] x[1] = "inf" -> NInf
      [] x[1] = "-inf" -> PInf
      [] OTHER -> NaN

FAdd(x, y) ==
    CASE x[1] = "nan" \/ y[1] = "nan" -> NaN
      [] x[1] = "fin" /\ y[1] = "fin" -> Fin(x[2] + y[2])
      [] x[1] = "fin" -> y
      [] y[1] = "fin" -> x
      [] x[1] = y[1] -> x
      [] OTHER -> NaN

FSub(x, y) == FAdd(x, FNeg(y))

\* round() of a finite float: to the nearest integer, ties to even
RoundHalves(h) ==
    LET q == h \div 2
    IN  IF h % 2 = 0 THEN q
        ELSE IF q % 2 = 0 THEN q ELSE q + 1

\* str(x) for a float
FloatStr(x) ==
    CASE x[1] = "inf" -> <<"i", "n", "f">>
      [] x[1] = "-inf" -> <<"-", "i", "n", "f">>
      [] x[1] = "nan" -> <<"n", "a", "n">>
      [] OTHER -> IntStr(x[2] \div 2) \o <<".">>
                  \o (IF x[2] % 2 = 0 THEN <<"0">> ELSE <<"5">>)

-----------------------------------------------------------------------------
(* Helpers (lines 10-35) *)

to_myanmar_num(n) == Translate(EN_DIGITS, MM_DIGITS, IntStr(n))

mmize(s) == Translate(EN_DIGITS, MM_DIGITS, s)

\* en_number_string without the replace(",", "")
en_number_string_KeepCommas(s) ==
    Strip(Translate(MM_DIGITS \o <<",">>, EN_DIGITS \o <<",">>, s))

en_number_string(s) ==
    Strip(RemoveChar(Translate(MM_DIGITS \o <<",">>, EN_DIGITS \o <<",">>, s), ","))

format_amount(x) ==
    IF IsFin(x)
    THEN LET n == RoundHalves(x[2])
         IN  IF n < 0 THEN <<"-">> \o GroupThousands(NatDigits(-n))
             ELSE GroupThousands(NatDigits(n))
    ELSE FloatStr(x)

format_amount_mm(x) == mmize(format_amount(x))

date_no_zeroes(d) ==
    NatDigits(d.day) \o <<"-">> \o NatDigits(d.month) \o <<"-">> \o NatDigits(d.year)

-----------------------------------------------------------------------------
(* Timestamps: the TEXT column "YYYY-MM-DD HH:MM", kept by its fields *)

Timestamp(date, time) ==
    [year |-> date.year, month |-> date.month, day |-> date.day,
     hour |-> time[1], minute |-> time[2]]

\* dt.date()
DateOf(dt) == [year |-> dt.year, month |-> dt.month, day |-> dt.day]

DtKey(dt) == <<dt.year, dt.month, dt.day, dt.hour, dt.minute>>

RECURSIVE TupleLess(_, _)
TupleLess(a, b) ==
    IF a = <<>> \/ b = <<>> THEN FALSE
    ELSE IF Head(a) # Head(b) THEN Head(a) < Head(b)
    ELSE TupleLess(Tail(a), Tail(b))

DtLess(a, b) == TupleLess(DtKey(a), DtKey(b))

DayLess(a, b) == TupleLess(<<a.year, a.month, a.day>>, <<b.year, b.month, b.day>>)

-----------------------------------------------------------------------------
(* Database (lines 67-206).  A table is the set of its rows; *_seq is the   *)
(* AUTOINCREMENT counter of the table, so a deleted id is never reused.     *)

InitUsers == {[id |-> 1, username |-> Str("admin"), password |-> Str("1234")]}

\* create_user as INSERT OR REPLACE: a taken username gets the new password
create_user_Overwrite(username, password) ==
    LET u == Strip(username)
        p == password
    IN  IF u = <<>> \/ p = <<>> THEN <<FALSE, "UserPassMissing", users>>
        ELSE <<TRUE, "", {r \in users : r.username # u}
                         \cup {[id |-> user_seq + 1, username |-> u, password |-> p]}>>

\* Database.create_user: <<ok, users'>>
create_user(username, password) ==
    LET u == Strip(username)
        p == password
    IN  IF u = <<>> \/ p = <<>> THEN <<FALSE, "UserPassMissing", users>>
        ELSE IF \E r \in users : r.username = u
             THEN <<FALSE, "DuplicateUsername", users>>
        ELSE <<TRUE, "", users \cup {[id |-> user_seq + 1, username |-> u,
                                      password |-> p]}>>

\* Database.verify_user: the id, or 0 for None
verify_user(username, password) ==
    IF \E r \in users : r.username = username /\ r.password = password
    THEN (CHOOSE r \in users : r.username = username /\ r.password = password).id
    ELSE 0

\* INSERT INTO expenses / incomes
InsertEntry(table, seq, user_id, dt, desc, amount, note) ==
    table \cup {[id |-> seq + 1, user_id |-> user_id, date |-> dt,
                 description |-> desc, amount |-> amount, note |-> note]}

\* the UPDATE without its WHERE clause
UpdateEntry_AllRows(table, id, desc, amount, note) ==
    {[r EXCEPT !.description = desc, !.amount = amount, !.note = note] : r \in table}

\* UPDATE ... SET description=?, amount=?, note=? WHERE id=?
UpdateEntry(table, id, desc, amount, note) ==
    {IF r.id = id
     THEN [r EXCEPT !.description = desc, !.amount = amount, !.note = note]
     ELSE r : r \in table}

\* DELETE FROM ... WHERE id=?
DeleteEntry(table, id) == {r \in table : r.id # id}

\* the month filter without the user_id condition
MonthRows_AnyUser(table, user_id, year, month) ==
    {r \in table : r.date.year = year /\ r.date.month = month}

\* WHERE user_id=? AND strftime('%Y',date)=? AND strftime('%m',date)=?
MonthRows(table, user_id, year, month) ==
    {r \in table : r.user_id = user_id /\ r.date.year = year /\ r.date.month = month}

\* ORDER BY date ASC; rows of equal date come in rowid order
RowBefore(a, b) == DtLess(a.date, b.date) \/ (a.date = b.date /\ a.id < b.id)

RECURSIVE OrderByDate(_)
OrderByDate(rows) ==
    IF rows = {} THEN <<>>
    ELSE LET first == CHOOSE r \in rows : \A o \in rows \ {r} : RowBefore(r, o)
         IN  <<first>> \o OrderByDate(rows \ {first})

\* get_expenses_by_month without the month in its WHERE clause
get_expenses_by_month_AnyMonth(user_id, year, month) ==
    OrderByDate({r \in expenses : r.user_id = user_id})

get_expenses_by_month(user_id, year, month) ==
    OrderByDate(MonthRows(expenses, user_id, year, month))

get_incomes_by_month(user_id, year, month) ==
    OrderByDate(MonthRows(incomes, user_id, year, month))

\* SELECT SUM(amount): <<"null">> when no row matches, else <<"real", sum>>
RECURSIVE SumAmounts(_)
SumAmounts(rows) ==
    IF rows = {} THEN Zero
    ELSE LET r == CHOOSE x \in rows : TRUE
         IN  FAdd(r.amount, SumAmounts(rows \ {r}))

\* row[0] or 0.0 : SQLite returns NULL for an empty set and for a NaN sum
SumOrZero(rows) ==
    LET s == SumAmounts(rows)
    IN  IF rows = {} \/ s = NaN THEN Zero ELSE s

get_total_expenses_by_month(user_id, year, month) ==
    SumOrZero(MonthRows(expenses, user_id, year, month))

\* close_month summing the month's incomes along with its expenses
db_close_month_AllEntries(user_id, year, month) ==
    LET total == FAdd(SumOrZero(MonthRows(expenses, user_id, year, month)),
                      SumOrZero(MonthRows(incomes, user_id, year, month)))
    IN  <<total, month_summary \cup {[id |-> ms_seq + 1, user_id |-> user_id,
                                      year |-> year, month |-> month,
                                      total |-> total]}>>

\* Database.close_month: <<total, month_summary'>>
db_close_month(user_id, year, month) ==
    LET total == SumOrZero(MonthRows(expenses, user_id, year, month))
    IN  <<total, month_summary \cup {[id |-> ms_seq + 1, user_id |-> user_id,
                                      year |-> year, month |-> month,
                                      total |-> total]}>>

-----------------------------------------------------------------------------
(* Ledger aggregation (lines 601-671) *)

\* next_month without the turn of the year
next_month_NoWrap(y, m) == <<y, m + 1>>

next_month(y, m) == IF m < 12 THEN <<y, m + 1>> ELSE <<y + 1, 1>>

\* list.sort(key=lambda x: x[1]): a stable sort on the timestamp
RECURSIVE InsertByDt(_, _)
InsertByDt(sorted, e) ==
    IF sorted = <<>> THEN <<e>>
    ELSE IF DtLess(e.date, Head(sorted).date) THEN <<e>> \o sorted
    ELSE <<Head(sorted)>> \o InsertByDt(Tail(sorted), e)

RECURSIVE SortByDt(_)
SortByDt(list) ==
    IF list = <<>> THEN <<>>
    ELSE InsertByDt(SortByDt(SubSeq(list, 1, Len(list) - 1)), list[Len(list)])

\* inc_by_day[d] / exp_by_day[d]: the query's rows of day d, in query order, then sorted
ByDay(list, d) == SortByDt(SelectSeq(list, LAMBDA r : DateOf(r.date) = d))

\* sorted(days, reverse=True)
RECURSIVE SortedDays_Descending(_)
SortedDays_Descending(days) ==
    IF days = {} THEN <<>>
    ELSE LET first == CHOOSE d \in days : \A o \in days \ {d} : DayLess(o, d)
         IN  <<first>> \o SortedDays_Descending(days \ {first})

\* sorted(days)
RECURSIVE SortedDays(_)
SortedDays(days) ==
    IF days = {} THEN <<>>
    ELSE LET first == CHOOSE d \in days : \A o \in days \ {d} : DayLess(d, o)
         IN  <<first>> \o SortedDays(days \ {first})

Key(kind, rid) == <<kind, rid>>

StrftimeDate(dt) ==
    Pad2(dt.day) \o <<"-">> \o Pad2(dt.month) \o <<"-">> \o NatDigits(dt.year)

StrftimeTime(dt) == Pad2(dt.hour) \o <<":">> \o Pad2(dt.minute)

INCOME_TEXT == <<"I", "n", "c", "o", "m", "e">>

IncomeRow(e, per_no, balance, last_key) ==
    [kind |-> "I", key |-> Key("I", e.id),
     no |-> to_myanmar_num(per_no),
     date |-> mmize(StrftimeDate(e.date)),
     time |-> mmize(StrftimeTime(e.date)),
     desc |-> IF e.description = <<>> THEN INCOME_TEXT ELSE e.description,
     income |-> format_amount_mm(e.amount),
     expense |-> <<>>,
     balance |-> format_amount_mm(balance),
     note |-> e.note,
     highlight |-> (Key("I", e.id) = last_key)]

\* an expense row that compares the id alone with the marker
ExpenseRow_MatchIdOnly(e, per_no, balance, last_key) ==
    [kind |-> "E", key |-> Key("E", e.id),
     no |-> to_myanmar_num(per_no),
     date |-> mmize(StrftimeDate(e.date)),
     time |-> mmize(StrftimeTime(e.date)),
     desc |-> e.description,
     income |-> <<>>,
     expense |-> format_amount_mm(e.amount),
     balance |-> format_amount_mm(balance),
     note |-> e.note,
     highlight |-> (last_key # <<>> /\ last_key[2] = e.id)]

ExpenseRow(e, per_no, balance, last_key) ==
    [kind |-> "E", key |-> Key("E", e.id),
     no |-> to_myanmar_num(per_no),
     date |-> mmize(StrftimeDate(e.date)),
     time |-> mmize(StrftimeTime(e.date)),
     desc |-> e.description,
     income |-> <<>>,
     expense |-> format_amount_mm(e.amount),
     balance |-> format_amount_mm(balance),
     note |-> e.note,
     highlight |-> (Key("E", e.id) = last_key)]

SeparatorRow(desc) ==
    [kind |-> "T", key |-> <<>>, no |-> <<>>, date |-> <<>>, time |-> <<>>,
     desc |-> desc, income |-> <<>>, expense |-> <<>>, balance |-> <<>>,
     note |-> <<>>, highlight |-> FALSE]

TotalCaption(d, day_exp_total) ==
    mmize(date_no_zeroes(d)) \o <<" day total spent (">>
    \o format_amount_mm(day_exp_total) \o <<" kyat)">>

DIVIDER == <<"-", "-", "-", "-", "-", "-", "-", "-">>

\* the loop over a day's incomes (lines 631-644)
RECURSIVE IncomeLoop(_, _, _, _)
IncomeLoop(list, per_no, balance, last_key) ==
    IF list = <<>> THEN [rows |-> <<>>, per_no |-> per_no, balance |-> balance]
    ELSE LET e == Head(list)
             b == FAdd(balance, e.amount)
             rest == IncomeLoop(Tail(list), per_no + 1, b, last_key)
         IN  [rest EXCEPT !.rows = <<IncomeRow(e, per_no, b, last_key)>> \o @]

\* the expense loop with the balance kept from falling below zero
RECURSIVE ExpenseLoop_Clamped(_, _, _, _, _)
ExpenseLoop_Clamped(list, per_no, balance, day_exp_total, last_key) ==
    IF list = <<>>
    THEN [rows |-> <<>>, balance |-> balance, day_exp_total |-> day_exp_total]
    ELSE LET e == Head(list)
             d == FSub(balance, e.amount)
             b == IF IsFin(d) /\ d[2] < 0 THEN Zero ELSE d
             t == FAdd(day_exp_total, e.amount)
             rest == ExpenseLoop_Clamped(Tail(list), per_no + 1, b, t, last_key)
         IN  [rest EXCEPT !.rows = <<ExpenseRow(e, per_no, b, last_key)>> \o @]

\* the loop over a day's expenses (lines 647-661)
RECURSIVE ExpenseLoop(_, _, _, _, _)
ExpenseLoop(list, per_no, balance, day_exp_total, last_key) ==
    IF list = <<>>
    THEN [rows |-> <<>>, balance |-> balance, day_exp_total |-> day_exp_total]
    ELSE LET e == Head(list)
             b == FSub(balance, e.amount)
             t == FAdd(day_exp_total, e.amount)
             rest == ExpenseLoop(Tail(list), per_no + 1, b, t, last_key)
         IN  [rest EXCEPT !.rows = <<ExpenseRow(e, per_no, b, last_key)>> \o @]

\* DayRows with the balance restarted at zero on every day
DayRows_ResetDaily(inc_d, exp_d, d, running_balance, last_key) ==
    LET i == IncomeLoop(inc_d, 1, Zero, last_key)
        x == ExpenseLoop(exp_d, i.per_no, i.balance, Zero, last_key)
        sep == IF inc_d # <<>> \/ exp_d # <<>>
               THEN <<SeparatorRow(TotalCaption(d, x.day_exp_total)),
                      SeparatorRow(DIVIDER)>>
               ELSE <<>>
    IN  [rows |-> i.rows \o x.rows \o sep, balance |-> x.balance]

\* DayRows with the day total started from the day's incomes
DayRows_TotalWithIncomes(inc_d, exp_d, d, running_balance, last_key) ==
    LET i == IncomeLoop(inc_d, 1, running_balance, last_key)
        x == ExpenseLoop(exp_d, i.per_no, i.balance,
                         FSub(i.balance, running_balance), last_key)
        sep == IF inc_d # <<>> \/ exp_d # <<>>
               THEN <<SeparatorRow(TotalCaption(d, x.day_exp_total)),
                      SeparatorRow(DIVIDER)>>
               ELSE <<>>
    IN  [rows |-> i.rows \o x.rows \o sep, balance |-> x.balance]

\* DayRows with the expenses numbered from 1 again
DayRows_NumberPerVariant(inc_d, exp_d, d, running_balance, last_key) ==
    LET i == IncomeLoop(inc_d, 1, running_balance, last_key)
        x == ExpenseLoop(exp_d, 1, i.balance, Zero, last_key)
        sep == IF inc_d # <<>> \/ exp_d # <<>>
               THEN <<SeparatorRow(TotalCaption(d, x.day_exp_total)),
                      SeparatorRow(DIVIDER)>>
               ELSE <<>>
    IN  [rows |-> i.rows \o x.rows \o sep, balance |-> x.balance]

\* one iteration of "for d in all_days" (lines 625-670)
DayRows(inc_d, exp_d, d, running_balance, last_key) ==
    LET i == IncomeLoop(inc_d, 1, running_balance, last_key)
        x == ExpenseLoop(exp_d, i.per_no, i.balance, Zero, last_key)
        sep == IF inc_d # <<>> \/ exp_d # <<>>
               THEN <<SeparatorRow(TotalCaption(d, x.day_exp_total)),
                      SeparatorRow(DIVIDER)>>
               ELSE <<>>
    IN  [rows |-> i.rows \o x.rows \o sep, balance |-> x.balance]

RECURSIVE DayLoop(_, _, _, _, _)
DayLoop(inc, exp, all_days, running_balance, last_key) ==
    IF all_days = <<>> THEN <<>>
    ELSE LET d == Head(all_days)
             r == DayRows(ByDay(inc, d), ByDay(exp, d), d, running_balance, last_key)
         IN  r.rows \o DayLoop(inc, exp, Tail(all_days), r.balance, last_key)

Rows(inc, exp, last_key) ==
    LET days == {DateOf(inc[i].date) : i \in 1..Len(inc)}
                \cup {DateOf(exp[i].date) : i \in 1..Len(exp)}
    IN  DayLoop(inc, exp, SortedDays(days), Zero, last_key)

group_month_rows(user_id, year, month) ==
    Rows(get_incomes_by_month(user_id, year, month),
         get_expenses_by_month(user_id, year, month),
         session.last_kind_id)

-----------------------------------------------------------------------------
(* float(): <<"ok", x>> or <<"err">>.  The grammar covered is an optional   *)
(* sign, then "inf" or decimal digits with an optional fraction; a finite   *)
(* value is representable here when its fraction is empty, zeros, or a 5    *)
(* followed by zeros, and the inputs of the model stay within that.         *)

IsDigits(s) == \A i \in 1..Len(s) : \E j \in 1..10 : EN_DIGITS[j] = s[i]

DigitVal(c) == (CHOOSE j \in 1..10 : EN_DIGITS[j] = c) - 1

RECURSIVE NatVal(_)
NatVal(ds) ==
    IF ds = <<>> THEN 0
    ELSE 10 * NatVal(SubSeq(ds, 1, Len(ds) - 1)) + DigitVal(ds[Len(ds)])

DotAt(s) == IF \E i \in 1..Len(s) : s[i] = "."
            THEN CHOOSE i \in 1..Len(s) : s[i] = "." /\ \A j \in 1..(i - 1) : s[j] # "."
            ELSE 0

AllZero(s) == \A i \in 1..Len(s) : s[i] = "0"

ParseUnsigned(b) ==
    LET k == DotAt(b)
        ip == IF k = 0 THEN b ELSE SubSeq(b, 1, k - 1)
        fp == IF k = 0 THEN <<>> ELSE SubSeq(b, k + 1, Len(b))
    IN  IF b = <<"i", "n", "f">> THEN <<"ok", PInf>>
        ELSE IF ~IsDigits(ip) \/ ~IsDigits(fp) \/ (ip = <<>> /\ fp = <<>>)
             THEN <<"err">>
        ELSE IF AllZero(fp) THEN <<"ok", Fin(2 * NatVal(ip))>>
        ELSE IF Head(fp) = "5" /\ AllZero(Tail(fp))
             THEN <<"ok", Fin(2 * NatVal(ip) + 1)>>
        ELSE <<"err">>

ParseFloat(s) ==
    LET t == Strip(s)
    IN  IF t = <<>> THEN <<"err">>
        ELSE IF Head(t) = "-"
             THEN LET r == ParseUnsigned(Tail(t))
                  IN  IF r[1] = "ok" THEN <<"ok", FNeg(r[2])>> ELSE r
        ELSE IF Head(t) = "+" THEN ParseUnsigned(Tail(t))
        ELSE ParseUnsigned(t)

\* int(round(val)): raises OverflowError / ValueError for an infinity or NaN
CanRound(x) == IsFin(x)

-----------------------------------------------------------------------------
(* Session and flashed messages *)

NoKey == <<>>

EmptySession ==
    [user_id |-> 0, username |-> <<>>, current_year |-> 0, current_month |-> 0,
     last_kind_id |-> NoKey]

NoFlash == [cat |-> "", msg |-> ""]

Flash(cat, msg) == [cat |-> cat, msg |-> msg]

LoggedIn == session.user_id # 0

\* no second session: no close-month request of one is in flight
NoClosing == [pc |-> "idle", user_id |-> 0, year |-> 0, month |-> 0,
              total |-> Zero]

\* no helper has been called on its own
NoCall == [arg |-> <<>>, res |-> <<>>, stage |-> "none"]

\* a request of the first session leaves both alone
Apart == UNCHANGED <<closing, call>>

\* get_active_year_month (lines 592-599): <<y, m>>; the session is written
\* only when a coordinate is missing
get_active_year_month(today) ==
    IF session.current_year = 0 \/ session.current_month = 0
    THEN today
    ELSE <<session.current_year, session.current_month>>

\* The months the model lets the active period range over
FirstMonth == <<2024, 11>>
LastMonth == <<2025, 1>>

MonthIndex(ym) == 12 * ym[1] + ym[2]

InRange(ym) == MonthIndex(FirstMonth) <= MonthIndex(ym)
               /\ MonthIndex(ym) <= MonthIndex(LastMonth)

DbUnchanged == UNCHANGED <<users, expenses, incomes, month_summary,
                           user_seq, exp_seq, inc_seq, ms_seq>>

EntriesUnchanged == UNCHANGED <<expenses, incomes, exp_seq, inc_seq>>

-----------------------------------------------------------------------------
(* Routes (lines 680-858).  Every route but login, signup and logout is     *)
(* behind login_required.  Each action is one request; flash holds the      *)
(* category and the message (by name, without its arguments) the request    *)
(* flashed, NoFlash when it flashed nothing.                                *)

\* POST /login
do_login(username, password, today) ==
    LET u == Strip(username)
        p == Strip(password)
        uid == verify_user(u, p)
    IN  /\ IF uid # 0
           THEN /\ session' = [user_id |-> uid, username |-> u,
                               current_year |-> today[1], current_month |-> today[2],
                               last_kind_id |-> NoKey]
                /\ flash' = NoFlash
           ELSE /\ flash' = Flash("error", "BadLogin")
                /\ UNCHANGED session
        /\ DbUnchanged
        /\ Apart

\* POST /signup
do_signup(username, password, confirm) ==
    LET u == Strip(username)
        p == Strip(password)
        c == Strip(confirm)
        r == create_user(u, p)
    IN  /\ Apart
        /\ UNCHANGED <<expenses, incomes, month_summary, exp_seq, inc_seq, ms_seq,
                       session>>
        /\ IF u = <<>> \/ p = <<>>
           THEN /\ flash' = Flash("error", "UserPassMissing")
                /\ Apart
                /\ UNCHANGED <<users, user_seq>>
           ELSE IF p # c
           THEN /\ flash' = Flash("error", "ConfirmMismatch")
                /\ Apart
                /\ UNCHANGED <<users, user_seq>>
           ELSE IF r[1]
           THEN /\ users' = r[3]
                /\ user_seq' = user_seq + 1
                /\ flash' = Flash("ok", "AccountCreated")
           ELSE /\ flash' = Flash("error", r[2])
                /\ Apart
                /\ UNCHANGED <<users, user_seq>>

\* logout that also forgets the user's month closures
logout_DropClosures ==
    /\ session' = EmptySession
    /\ flash' = NoFlash
    /\ month_summary' = {r \in month_summary : r.user_id # session.user_id}
    /\ Apart
    /\ UNCHANGED <<users, expenses, incomes, user_seq, exp_seq, inc_seq, ms_seq>>

\* GET /logout
logout ==
    /\ session' = EmptySession
    /\ flash' = NoFlash
    /\ DbUnchanged
    /\ Apart

\* POST /set-month
SetMonthTarget(action, ym) ==
    LET y == session.current_year
        m == session.current_month
    IN  CASE action = "prev" -> IF m > 1 THEN <<y, m - 1>> ELSE <<y - 1, 12>>
          [] action = "next" -> next_month(y, m)
          [] OTHER -> IF ym # <<>> THEN ym ELSE <<y, m>>

set_month(action, ym) ==
    LET to == SetMonthTarget(action, ym)
    IN  /\ LoggedIn
        /\ session' = [session EXCEPT !.current_year = to[1], !.current_month = to[2]]
        /\ flash' = NoFlash
        /\ DbUnchanged
        /\ Apart

\* POST /add-expense
add_expense(date, time, desc0, amount, note0) ==
    LET tm == IF time = <<>> THEN <<9, 0>> ELSE time
        desc == Strip(desc0)
        amt == en_number_string(amount)
        note == Strip(note0)
        val == ParseFloat(amt)
        rid == exp_seq + 1
    IN  /\ LoggedIn
        /\ Apart
        /\ UNCHANGED <<users, incomes, month_summary, user_seq, inc_seq, ms_seq>>
        /\ IF desc = <<>>
           THEN /\ flash' = Flash("error", "ExpenseDescRequired")
                /\ UNCHANGED <<expenses, exp_seq, session>>
           ELSE IF val[1] = "err"
           THEN /\ flash' = Flash("error", "AmountInvalid")
                /\ UNCHANGED <<expenses, exp_seq, session>>
           ELSE /\ expenses' = InsertEntry(expenses, exp_seq, session.user_id,
                                           Timestamp(date, tm), desc, val[2], note)
                /\ exp_seq' = rid
                /\ session' = [session EXCEPT !.last_kind_id = Key("E", rid)]
                /\ flash' = IF CanRound(val[2])
                            THEN Flash("ok", "ExpenseAdded")
                            ELSE Flash("error", "AmountInvalid")

\* add_income without the description check, falling back on the table default
add_income_DefaultDesc(date, time, desc0, amount, note0) ==
    LET tm == IF time = <<>> THEN <<9, 0>> ELSE time
        desc == IF Strip(desc0) = <<>> THEN INCOME_TEXT ELSE Strip(desc0)
        val == ParseFloat(en_number_string(amount))
        rid == inc_seq + 1
    IN  /\ LoggedIn
        /\ Apart
        /\ UNCHANGED <<users, expenses, month_summary, user_seq, exp_seq, ms_seq>>
        /\ IF val[1] = "err"
           THEN /\ flash' = Flash("error", "IncomeAmountInvalid")
                /\ UNCHANGED <<incomes, inc_seq, session>>
           ELSE /\ incomes' = InsertEntry(incomes, inc_seq, session.user_id,
                                          Timestamp(date, tm), desc, val[2],
                                          Strip(note0))
                /\ inc_seq' = rid
                /\ session' = [session EXCEPT !.last_kind_id = Key("I", rid)]
                /\ flash' = IF CanRound(val[2])
                            THEN Flash("ok", "IncomeAdded")
                            ELSE Flash("error", "IncomeAmountInvalid")

\* POST /add-income
add_income(date, time, desc0, amount, note0) ==
    LET tm == IF time = <<>> THEN <<9, 0>> ELSE time
        desc == Strip(desc0)
        amt == en_number_string(amount)
        note == Strip(note0)
        val == ParseFloat(amt)
        rid == inc_seq + 1
    IN  /\ LoggedIn
        /\ Apart
        /\ UNCHANGED <<users, expenses, month_summary, user_seq, exp_seq, ms_seq>>
        /\ IF desc = <<>>
           THEN /\ flash' = Flash("error", "IncomeDescRequired")
                /\ UNCHANGED <<incomes, inc_seq, session>>
           ELSE IF val[1] = "err"
           THEN /\ flash' = Flash("error", "IncomeAmountInvalid")
                /\ UNCHANGED <<incomes, inc_seq, session>>
           ELSE /\ incomes' = InsertEntry(incomes, inc_seq, session.user_id,
                                          Timestamp(date, tm), desc, val[2], note)
                /\ inc_seq' = rid
                /\ session' = [session EXCEPT !.last_kind_id = Key("I", rid)]
                /\ flash' = IF CanRound(val[2])
                            THEN Flash("ok", "IncomeAdded")
                            ELSE Flash("error", "IncomeAmountInvalid")

\* POST /delete ; key is "" or "<kind>-<rid>"
delete_entry(key) ==
    /\ LoggedIn
    /\ Apart
    /\ UNCHANGED <<users, month_summary, user_seq, exp_seq, inc_seq, ms_seq, session>>
    /\ IF key = <<>>
       THEN /\ flash' = Flash("error", "SeparatorRow")
            /\ UNCHANGED <<expenses, incomes>>
       ELSE /\ IF key[1] = "I"
               THEN /\ incomes' = DeleteEntry(incomes, key[2])
                    /\ UNCHANGED expenses
               ELSE /\ expenses' = DeleteEntry(expenses, key[2])
                    /\ UNCHANGED incomes
            /\ flash' = Flash("ok", "RowDeleted")

\* POST /edit/<kind>/<int:rid>
save_edit(kind, rid, desc0, amount, note0) ==
    LET desc == Strip(desc0)
        amt == en_number_string(amount)
        note == Strip(note0)
        val == ParseFloat(amt)
        idesc == IF desc = <<>> THEN INCOME_TEXT ELSE desc
    IN  /\ LoggedIn
        /\ Apart
        /\ UNCHANGED <<users, month_summary, user_seq, exp_seq, inc_seq, ms_seq>>
        /\ IF val[1] = "err"
           THEN /\ flash' = Flash("error", "AmountInvalid")
                /\ UNCHANGED <<expenses, incomes, session>>
           ELSE IF kind = "I"
           THEN /\ incomes' = UpdateEntry(incomes, rid, idesc, val[2], note)
                /\ UNCHANGED expenses
                /\ session' = [session EXCEPT !.last_kind_id = Key("I", rid)]
                /\ flash' = IF CanRound(val[2])
                            THEN Flash("ok", "IncomeEdited")
                            ELSE Flash("error", "AmountInvalid")
           ELSE IF desc = <<>>
           THEN /\ flash' = Flash("error", "EditDescRequired")
                /\ UNCHANGED <<expenses, incomes, session>>
           ELSE /\ expenses' = UpdateEntry(expenses, rid, desc, val[2], note)
                /\ UNCHANGED incomes
                /\ session' = [session EXCEPT !.last_kind_id = Key("E", rid)]
                /\ flash' = IF CanRound(val[2])
                            THEN Flash("ok", "ExpenseEdited")
                            ELSE Flash("error", "AmountInvalid")

\* POST /close-month
close_month(today) ==
    LET ym == get_active_year_month(today)
        y == ym[1]
        m == ym[2]
        rows_this_month == get_expenses_by_month(session.user_id, y, m)
        r == db_close_month(session.user_id, y, m)
        nxt == next_month(y, m)
    IN  /\ LoggedIn
        /\ Apart
        /\ UNCHANGED <<users, expenses, incomes, user_seq, exp_seq, inc_seq>>
        /\ IF rows_this_month = <<>>
           THEN /\ flash' = Flash("error", "NoExpenseEntries")
                /\ session' = [session EXCEPT !.current_year = y, !.current_month = m]
                /\ UNCHANGED <<month_summary, ms_seq>>
           ELSE /\ month_summary' = r[2]
                /\ ms_seq' = ms_seq + 1
                /\ flash' = Flash("ok", "MonthClosed")
                /\ session' = [session EXCEPT !.current_year = nxt[1],
                                              !.current_month = nxt[2],
                                              !.last_kind_id = NoKey]

-----------------------------------------------------------------------------
(* POST /close-month of a second session of the same user, served by        *)
(* another thread of the server over the one shared connection (line 71,    *)
(* check_same_thread=False): its three statements are separate steps, and   *)
(* requests of the first session run between them.  closing holds the       *)
(* second session's user, its active period, the place its request has      *)
(* reached, and the local variable total.                                   *)

\* rows_this_month = db.get_expenses_by_month(...); if not rows_this_month: return
close_month_check ==
    /\ closing.pc = "idle"
    /\ closing.user_id # 0
    /\ closing' = [closing EXCEPT !.pc =
                      IF get_expenses_by_month(closing.user_id, closing.year,
                                               closing.month) = <<>>
                      THEN "idle" ELSE "checked"]
    /\ UNCHANGED <<users, expenses, incomes, month_summary, user_seq, exp_seq,
                   inc_seq, ms_seq, session, flash, call>>

\* Database.close_month: SELECT SUM(amount) ... ; total = row[0] or 0.0
close_month_sum ==
    /\ closing.pc = "checked"
    /\ closing' = [closing EXCEPT
                      !.pc = "summed",
                      !.total = get_total_expenses_by_month(
                                    closing.user_id, closing.year, closing.month)]
    /\ UNCHANGED <<users, expenses, incomes, month_summary, user_seq, exp_seq,
                   inc_seq, ms_seq, session, flash, call>>

\* Database.close_month: INSERT INTO month_summary ... ; commit ; then the
\* route moves the second session to the next month
close_month_insert ==
    LET nxt == next_month(closing.year, closing.month)
    IN  /\ closing.pc = "summed"
        /\ month_summary' = month_summary \cup
                               {[id |-> ms_seq + 1, user_id |-> closing.user_id,
                                 year |-> closing.year, month |-> closing.month,
                                 total |-> closing.total]}
        /\ ms_seq' = ms_seq + 1
        /\ closing' = [closing EXCEPT !.pc = "idle", !.year = nxt[1],
                                      !.month = nxt[2], !.total = Zero]
        /\ UNCHANGED <<users, expenses, incomes, user_seq, exp_seq, inc_seq,
                       session, flash, call>>

-----------------------------------------------------------------------------
(* GET /export/txt (lines 874-889): the text written to the buffer, as its  *)
(* characters; TAB and NL are the tab and the newline, and each column      *)
(* heading is one token.                                                    *)

TAB == "\t"
NL == "\n"

HEADER_LINE ==
    <<"No", TAB, "Date", TAB, "Time", TAB, "Description", TAB, "Income", TAB,
      "Expense", TAB, "Balance", TAB, "Note", NL>>

\* the line written for one row
ExportLine(r) ==
    IF r.kind = "T"
    THEN <<TAB, TAB, TAB>> \o r.desc \o <<TAB, TAB, TAB, TAB, NL>>
    ELSE r.no \o <<TAB>> \o r.date \o <<TAB>> \o r.time \o <<TAB>> \o r.desc
         \o <<TAB>> \o r.income \o <<TAB>> \o r.expense \o <<TAB>> \o r.balance
         \o <<TAB>> \o r.note \o <<NL>>

RECURSIVE ExportLines(_)
ExportLines(rows) ==
    IF rows = <<>> THEN <<>>
    ELSE ExportLine(Head(rows)) \o ExportLines(Tail(rows))

\* an export that leaves the separator rows out
export_txt_DetailsOnly(y, m) ==
    HEADER_LINE
    \o ExportLines(SelectSeq(group_month_rows(session.user_id, y, m),
                             LAMBDA r : r.kind # "T"))

export_txt(y, m) == HEADER_LINE \o ExportLines(group_month_rows(session.user_id, y, m))

-----------------------------------------------------------------------------
(* Request inputs and bounds shared by the specifications below *)

D(y, m, d) == [year |-> y, month |-> m, day |-> d]

Kinds == {"I", "E"}

DeleteKeys(ids) == {<<>>} \cup {Key(k, i) : k \in Kinds, i \in ids}

CanAdd(max) == exp_seq + inc_seq < max

\* the active period after a closure stays within FirstMonth .. LastMonth
CanAdvance == InRange(next_month(session.current_year, session.current_month))

CanClose(max) == ms_seq < max /\ CanAdvance

AdminSession(ym) ==
    [user_id |-> 1, username |-> Str("admin"), current_year |-> ym[1],
     current_month |-> ym[2], last_kind_id |-> NoKey]

EmptyDb ==
    /\ users = InitUsers
    /\ expenses = {}
    /\ incomes = {}
    /\ month_summary = {}
    /\ user_seq = 1
    /\ exp_seq = 0
    /\ inc_seq = 0
    /\ ms_seq = 0

-----------------------------------------------------------------------------
(* Spec: the program as a whole, every route, from the freshly created      *)
(* database and an empty session.                                           *)

Usernames == {<<>>, <<"admin">>, <<"bob", " ">>}
Passwords == {<<>>, <<"1234">>}
Confirms == {<<"1234">>, <<"x">>}
Todays == {<<2024, 12>>}
Dates == {D(2024, 12, 1)}
Times == {<<>>}
Descs == {<<>>, <<"a">>}
Amounts == {<<"M2">>, <<"x">>}
Notes == {<<>>}
Ids == 1..MaxAdds
MonthChoices == {<<>>, <<2024, 11>>}

Init ==
    /\ EmptyDb
    /\ session = EmptySession
    /\ flash = NoFlash
    /\ closing = NoClosing
    /\ call = NoCall

Next ==
    \/ \E u \in Usernames, p \in Passwords, t \in Todays : do_login(u, p, t)
    \/ \E u \in Usernames, p \in Passwords, c \in Confirms : do_signup(u, p, c)
    \/ logout
    \/ \E a \in {"prev", "next", "go"}, ym \in MonthChoices :
          InRange(SetMonthTarget(a, ym)) /\ set_month(a, ym)
    \/ \E d \in Dates, t \in Times, ds \in Descs, a \in Amounts, n \in Notes :
          CanAdd(MaxAdds) /\ add_expense(d, t, ds, a, n)
    \/ \E d \in Dates, t \in Times, ds \in Descs, a \in Amounts, n \in Notes :
          CanAdd(MaxAdds) /\ add_income(d, t, ds, a, n)
    \/ \E k \in DeleteKeys(Ids) : delete_entry(k)
    \/ \E k \in Kinds, i \in Ids, ds \in Descs, a \in Amounts, n \in Notes :
          save_edit(k, i, ds, a, n)
    \/ \E t \in Todays : CanClose(MaxClosures) /\ close_month(t)

Spec == Init /\ [][Next]_vars

-----------------------------------------------------------------------------
(* LedgerSpec: the ledger of one logged-in user within and around one month *)
(* -- adds and deletes over two days of the month, two times of day and a   *)
(* day of the month before, with a fractional amount.                       *)

LedgerStamps == {<<D(2024, 12, 1), <<>>>>, <<D(2024, 12, 1), <<8, 0>>>>,
                 <<D(2024, 12, 2), <<>>>>, <<D(2024, 11, 30), <<>>>>}
LedgerAmounts == {<<"M0", ".", "5">>}
LedgerDescs == {<<"a">>}
LedgerNotes == {<<>>}
LedgerIds == 1..LedgerMaxAdds

LedgerInit ==
    /\ EmptyDb
    /\ session = AdminSession(<<2024, 12>>)
    /\ flash = NoFlash
    /\ closing = NoClosing
    /\ call = NoCall

LedgerNext ==
    \/ \E s \in LedgerStamps, ds \in LedgerDescs, a \in LedgerAmounts, n \in LedgerNotes :
          CanAdd(LedgerMaxAdds) /\ add_expense(s[1], s[2], ds, a, n)
    \/ \E s \in LedgerStamps, ds \in LedgerDescs, a \in LedgerAmounts, n \in LedgerNotes :
          CanAdd(LedgerMaxAdds) /\ add_income(s[1], s[2], ds, a, n)
    \/ \E k \in DeleteKeys(LedgerIds) : delete_entry(k)

LedgerSpec == LedgerInit /\ [][LedgerNext]_vars

-----------------------------------------------------------------------------
(* CloseSpec: one logged-in user entering, moving between and closing       *)
(* months.                                                                  *)

CloseDates == {D(2024, 11, 30), D(2024, 12, 1)}
CloseAmounts == {<<"M1", ".", "5">>}
CloseDescs == {<<"a">>}
CloseIds == 1..CloseMaxAdds

CloseInit ==
    /\ EmptyDb
    /\ session = AdminSession(<<2024, 12>>)
    /\ flash = NoFlash
    /\ closing = NoClosing
    /\ call = NoCall

CloseNext ==
    \/ \E a \in {"prev", "next"} : InRange(SetMonthTarget(a, <<>>)) /\ set_month(a, <<>>)
    \/ \E d \in CloseDates, ds \in CloseDescs, a \in CloseAmounts :
          CanAdd(CloseMaxAdds) /\ add_expense(d, <<>>, ds, a, <<>>)
    \/ \E d \in CloseDates, ds \in CloseDescs, a \in CloseAmounts :
          CanAdd(CloseMaxAdds) /\ add_income(d, <<>>, ds, a, <<>>)
    \/ \E k \in DeleteKeys(CloseIds) : delete_entry(k)
    \/ \E k \in Kinds, i \in CloseIds, ds \in CloseDescs, a \in CloseAmounts :
          save_edit(k, i, ds, a, <<>>)
    \/ \E t \in Todays : CanClose(CloseMaxClosures) /\ close_month(t)

CloseSpec == CloseInit /\ [][CloseNext]_vars

-----------------------------------------------------------------------------
(* EntrySpec: one logged-in user adding, editing and deleting entries with  *)
(* well-formed and malformed form fields.                                   *)

EntryDates == {D(2024, 12, 1)}
EntryDescs == {<<>>, <<" ">>, <<"a", " ">>}
EntryAmounts == {<<>>, <<"x">>, <<"M1", ",", "0">>, <<"i", "n", "f">>, <<"-", "M5">>}
EntryNotes == {<<>>}
EntryIds == 1..EntryMaxAdds

EntryInit ==
    /\ EmptyDb
    /\ session = AdminSession(<<2024, 12>>)
    /\ flash = NoFlash
    /\ closing = NoClosing
    /\ call = NoCall

EntryNext ==
    \/ \E d \in EntryDates, ds \in EntryDescs, a \in EntryAmounts, n \in EntryNotes :
          CanAdd(EntryMaxAdds) /\ add_expense(d, <<>>, ds, a, n)
    \/ \E d \in EntryDates, ds \in EntryDescs, a \in EntryAmounts, n \in EntryNotes :
          CanAdd(EntryMaxAdds) /\ add_income(d, <<>>, ds, a, n)
    \/ \E k \in DeleteKeys(EntryIds) : delete_entry(k)
    \/ \E k \in Kinds, i \in EntryIds, ds \in EntryDescs, a \in EntryAmounts,
          n \in EntryNotes : save_edit(k, i, ds, a, n)

EntrySpec == EntryInit /\ [][EntryNext]_vars

-----------------------------------------------------------------------------
(* MarkSpec: one account logging in and out, adding, editing, deleting and  *)
(* closing, with an amount the success message cannot render.               *)

MarkNext ==
    \/ \E p \in {<<"1234">>, <<"x">>}, t \in Todays :
          do_login(Str("admin"), p, t)
    \/ logout
    \/ \E d \in {D(2024, 12, 1)}, ds \in {<<"a">>},
          a \in {<<"M2">>, <<"i", "n", "f">>} :
          CanAdd(MarkMaxAdds) /\ add_expense(d, <<>>, ds, a, <<>>)
    \/ \E d \in {D(2024, 12, 1)}, ds \in {<<"a">>},
          a \in {<<"M2">>, <<"i", "n", "f">>} :
          CanAdd(MarkMaxAdds) /\ add_income(d, <<>>, ds, a, <<>>)
    \/ \E k \in DeleteKeys(1..MarkMaxAdds) : delete_entry(k)
    \/ \E k \in Kinds, i \in 1..MarkMaxAdds, ds \in {<<"a">>},
          a \in {<<"M2">>, <<"i", "n", "f">>} :
          save_edit(k, i, ds, a, <<>>)
    \/ \E t \in Todays : CanClose(MarkMaxClosures) /\ close_month(t)

MarkSpec == Init /\ [][MarkNext]_vars

-----------------------------------------------------------------------------
(* AcctSpec: two accounts -- signup, login and logout, and the entries of   *)
(* each account in two months.                                              *)

AcctNext ==
    \/ \E u \in {<<"admin">>, <<"bob">>}, p \in {<<"1234">>} : do_signup(u, p, p)
    \/ \E u \in {<<"admin">>, <<"bob">>}, p \in {<<"1234">>}, t \in Todays :
          do_login(u, p, t)
    \/ logout
    \/ \E d \in {D(2024, 11, 30), D(2024, 12, 1)}, ds \in {<<"a">>}, a \in {<<"M2">>} :
          CanAdd(AcctMaxAdds) /\ add_expense(d, <<>>, ds, a, <<>>)
    \/ \E d \in {D(2024, 11, 30), D(2024, 12, 1)}, ds \in {<<"a">>}, a \in {<<"M2">>} :
          CanAdd(AcctMaxAdds) /\ add_income(d, <<>>, ds, a, <<>>)
    \/ \E k \in DeleteKeys(1..AcctMaxAdds) : delete_entry(k)
    \/ \E k \in Kinds, i \in 1..AcctMaxAdds, ds \in {<<"a">>}, a \in {<<"M3">>} :
          save_edit(k, i, ds, a, <<>>)

AcctSpec == Init /\ [][AcctNext]_vars

-----------------------------------------------------------------------------
(* SignupSpec: accounts being created, with fresh, taken, padded and empty  *)
(* usernames, and logins to them.                                           *)

SignupNext ==
    \/ \E u \in {<<>>, <<"admin">>, <<"bob">>, <<"bob", " ">>, <<"eve">>},
          p \in {<<>>, <<"1234">>, <<"x">>}, c \in {<<"1234">>, <<"x">>} :
          do_signup(u, p, c)
    \/ \E u \in {<<>>, <<"admin">>, <<"bob">>, <<"bob", " ">>, <<"eve">>},
          p \in {<<>>, <<"1234">>, <<"x">>}, t \in Todays :
          do_login(u, p, t)
    \/ logout

SignupSpec == Init /\ [][SignupNext]_vars

-----------------------------------------------------------------------------
(* DigitsSpec: the digit helpers applied on their own, mmize and then       *)
(* en_number_string, to every text of up to MaxLen characters made of       *)
(* ASCII digits, commas and spaces.                                         *)

DigitsInit ==
    /\ EmptyDb
    /\ session = EmptySession
    /\ flash = NoFlash
    /\ closing = NoClosing
    /\ call \in {[arg |-> x, res |-> x, stage |-> "arg"] :
                   x \in UNION {[1..k -> {"0", "1", ",", " "}] : k \in 0..MaxLen}}

\* res = mmize(x)
call_mmize ==
    /\ call.stage = "arg"
    /\ call' = [call EXCEPT !.res = mmize(call.res), !.stage = "mmize"]
    /\ UNCHANGED <<session, flash, closing>>
    /\ DbUnchanged

\* res = en_number_string(res)
call_en_number_string ==
    /\ call.stage = "mmize"
    /\ call' = [call EXCEPT !.res = en_number_string(call.res), !.stage = "en"]
    /\ UNCHANGED <<session, flash, closing>>
    /\ DbUnchanged

DigitsNext ==
    \/ call_mmize
    \/ call_en_number_string

DigitsSpec == DigitsInit /\ [][DigitsNext]_vars

-----------------------------------------------------------------------------
(* BalanceSpec: one logged-in user adding and deleting whole-number incomes *)
(* and expenses on two days of one month.                                   *)

BalanceNext ==
    \/ \E d \in {D(2024, 12, 1), D(2024, 12, 2)}, a \in {<<"M1">>} :
          CanAdd(BalanceMaxAdds) /\ add_expense(d, <<>>, Str("a"), a, <<>>)
    \/ \E d \in {D(2024, 12, 1), D(2024, 12, 2)}, a \in {<<"M1">>} :
          CanAdd(BalanceMaxAdds) /\ add_income(d, <<>>, Str("a"), a, <<>>)
    \/ \E k \in DeleteKeys(1..BalanceMaxAdds) : delete_entry(k)

BalanceSpec == LedgerInit /\ [][BalanceNext]_vars

-----------------------------------------------------------------------------
(* RaceSpec: two sessions of one user -- the first adds, edits and deletes  *)
(* expenses while the second closes the month.                              *)

RaceInit ==
    /\ EmptyDb
    /\ session = AdminSession(<<2024, 12>>)
    /\ flash = NoFlash
    /\ closing = [pc |-> "idle", user_id |-> 1, year |-> 2024, month |-> 12,
                  total |-> Zero]
    /\ call = NoCall

RaceNext ==
    \/ \E d \in {D(2024, 12, 1)}, ds \in {<<"a">>}, a \in {<<"M2">>} :
          CanAdd(RaceMaxAdds) /\ add_expense(d, <<>>, ds, a, <<>>)
    \/ \E i \in 1..RaceMaxAdds : delete_entry(Key("E", i))
    \/ \E i \in 1..RaceMaxAdds, ds \in {<<"a">>}, a \in {<<"M3">>} :
          save_edit("E", i, ds, a, <<>>)
    \/ close_month_check
    \/ close_month_sum
    \/ close_month_insert

RaceSpec == RaceInit /\ [][RaceNext]_vars

-----------------------------------------------------------------------------
(* Vocabulary of the properties *)

UserIds == {r.id : r \in users}

ModelMonths == {<<2024, 11>>, <<2024, 12>>, <<2025, 1>>}

IsDetail(r) == r.kind # "T"

Details(rows) == SelectSeq(rows, IsDetail)

MonthIncomes(u, ym) == MonthRows(incomes, u, ym[1], ym[2])

MonthExpenses(u, ym) == MonthRows(expenses, u, ym[1], ym[2])

MonthEntries(u, ym) == MonthIncomes(u, ym) \cup MonthExpenses(u, ym)

MonthDays(u, ym) == {DateOf(r.date) : r \in MonthEntries(u, ym)}

OnDay(rows, d) == {r \in rows : DateOf(r.date) = d}

\* the text of a Detail row's date column for day d
DayText(d) == mmize(StrftimeDate(d))

\* the stored entry a Detail row was made from
EntryOfRow(r) ==
    IF r.kind = "I" THEN CHOOSE e \in incomes : e.id = r.key[2]
    ELSE CHOOSE e \in expenses : e.id = r.key[2]

IsDivider(r) == r.kind = "T" /\ r.desc = DIVIDER

IsCaption(r) == r.kind = "T" /\ r.desc # DIVIDER

Dec2024 == <<2024, 12>>

-----------------------------------------------------------------------------
(* C1: for every user and month, the balance shown on the last Detail row   *)
(* of group_month_rows is the formatted value of (sum of the month's        *)
(* incomes) - (sum of the month's expenses), whatever the order in which    *)
(* the entries were added and whatever their days; there is a Detail row    *)
(* exactly when the month has an entry.                                     *)
C1_FinalBalance ==
    \A u \in UserIds, ym \in ModelMonths :
        LET det == Details(group_month_rows(u, ym[1], ym[2]))
        IN  /\ (det = <<>>) <=> (MonthEntries(u, ym) = {})
            /\ det # <<>> =>
                 det[Len(det)].balance =
                     format_amount_mm(FSub(SumAmounts(MonthIncomes(u, ym)),
                                           SumAmounts(MonthExpenses(u, ym))))

\* a month with incomes and expenses on different days, whose entries were
\* not added in day order
C1_Witness ==
    /\ \E i \in MonthIncomes(1, Dec2024), e \in MonthExpenses(1, Dec2024) :
          DateOf(i.date) # DateOf(e.date)
    /\ \E a, b \in MonthExpenses(1, Dec2024) :
          DayLess(DateOf(a.date), DateOf(b.date)) /\ b.id < a.id

(* C2: for every day of the month that has an entry there is exactly one    *)
(* Total caption, and it shows the formatted sum of that day's expenses     *)
(* alone; a day with incomes only shows a zero subtotal.                    *)
C2_DayTotals ==
    \A u \in UserIds, ym \in ModelMonths :
        LET rows == group_month_rows(u, ym[1], ym[2])
            caps == SelectSeq(rows, IsCaption)
            days == MonthDays(u, ym)
        IN  /\ Len(caps) = Cardinality(days)
            /\ {caps[j].desc : j \in 1..Len(caps)} =
                 {TotalCaption(d, SumAmounts(OnDay(MonthExpenses(u, ym), d))) : d \in days}
            /\ \A d \in days :
                 OnDay(MonthExpenses(u, ym), d) = {} =>
                     \E j \in 1..Len(caps) :
                         caps[j].desc = mmize(date_no_zeroes(d))
                                        \o <<" day total spent (", "M0", " kyat)">>

\* one day with incomes only and another day with two expenses
C2_Witness ==
    \E d1, d2 \in MonthDays(1, Dec2024) :
        /\ OnDay(MonthExpenses(1, Dec2024), d1) = {}
        /\ OnDay(MonthIncomes(1, Dec2024), d1) # {}
        /\ Cardinality(OnDay(MonthExpenses(1, Dec2024), d2)) = 2

(* C3: within every day the Detail rows are numbered 1, 2, ..., N, where N  *)
(* is the number of that day's incomes plus the number of its expenses; the *)
(* numbering restarts on each day and every income of a day is numbered     *)
(* before every expense of that day.                                        *)
C3_DayNumbering ==
    \A u \in UserIds, ym \in ModelMonths :
        LET det == Details(group_month_rows(u, ym[1], ym[2]))
        IN  /\ Len(det) = Cardinality(MonthIncomes(u, ym))
                          + Cardinality(MonthExpenses(u, ym))
            /\ \A d \in MonthDays(u, ym) :
                 LET day == SelectSeq(det, LAMBDA r : r.date = DayText(d))
                     n == Cardinality(OnDay(MonthIncomes(u, ym), d))
                          + Cardinality(OnDay(MonthExpenses(u, ym), d))
                 IN  /\ Len(day) = n
                     /\ \A j \in 1..n : day[j].no = to_myanmar_num(j)
                     /\ \A j, k \in 1..n :
                          day[j].kind = "I" /\ day[k].kind = "E" => j < k

\* a day whose expense is earlier in the day than its income, and a second
\* day with an entry
C3_Witness ==
    /\ \E i \in MonthIncomes(1, Dec2024), e \in MonthExpenses(1, Dec2024) :
          DateOf(i.date) = DateOf(e.date) /\ DtLess(e.date, i.date)
    /\ Cardinality(MonthDays(1, Dec2024)) = 2

(* C4: the rows come day by day in ascending day order; within a day the    *)
(* incomes come first in ascending timestamp order, then the expenses in    *)
(* ascending timestamp order, then one Total caption of that day, then one  *)
(* divider; there are twice as many separator rows as days with entries.    *)
C4_RowOrder ==
    \A u \in UserIds, ym \in ModelMonths :
        LET rows == group_month_rows(u, ym[1], ym[2])
            n == Len(rows)
            Day(j) == DateOf(EntryOfRow(rows[j]).date)
            Stamp(j) == EntryOfRow(rows[j]).date
        IN  /\ n > 0 => IsDetail(rows[1]) /\ IsDivider(rows[n])
            /\ Len(SelectSeq(rows, LAMBDA r : r.kind = "T"))
                   = 2 * Cardinality(MonthDays(u, ym))
            /\ \A j \in 1..(n - 1) :
                 /\ IsDetail(rows[j]) /\ IsDetail(rows[j + 1]) =>
                      /\ Day(j) = Day(j + 1)
                      /\ ~(rows[j].kind = "E" /\ rows[j + 1].kind = "I")
                      /\ rows[j].kind = rows[j + 1].kind =>
                           ~DtLess(Stamp(j + 1), Stamp(j))
                 /\ IsDetail(rows[j]) /\ ~IsDetail(rows[j + 1]) =>
                      /\ IsCaption(rows[j + 1])
                      /\ SubSeq(rows[j + 1].desc, 1, Len(mmize(date_no_zeroes(Day(j)))) + 1)
                           = mmize(date_no_zeroes(Day(j))) \o <<" day total spent (">>
                 /\ IsCaption(rows[j]) => IsDivider(rows[j + 1])
                 /\ IsDivider(rows[j]) =>
                      /\ IsDetail(rows[j + 1])
                      /\ j > 2 /\ IsDetail(rows[j - 2])
                      /\ DayLess(Day(j - 2), Day(j + 1))

\* two incomes of one day added latest first, and an expense on a later day
C4_Witness ==
    /\ \E a, b \in MonthIncomes(1, Dec2024) :
          DateOf(a.date) = DateOf(b.date) /\ DtLess(a.date, b.date) /\ b.id < a.id
    /\ \E e \in MonthExpenses(1, Dec2024), i \in MonthIncomes(1, Dec2024) :
          DayLess(DateOf(i.date), DateOf(e.date))

-----------------------------------------------------------------------------
\* a step that answered a close-month request
CloseAnswered == flash'.msg \in {"NoExpenseEntries", "MonthClosed"}

ActiveMonth == <<session.current_year, session.current_month>>

\* group_month_rows as the state after the step gives it
RowsAfter(u, ym) ==
    Rows(OrderByDate(MonthRows(incomes', u, ym[1], ym[2])),
         OrderByDate(MonthRows(expenses', u, ym[1], ym[2])),
         session'.last_kind_id)

(* C5: a close-month request for an active month in which the user has no   *)
(* expense is rejected with the no-entries error: month_summary and its     *)
(* counter, the active period and the last-touched marker stay as they      *)
(* were, also when the month has incomes.                                   *)
C5_CloseRejected ==
    [][(CloseAnswered /\ MonthExpenses(session.user_id, ActiveMonth) = {}) =>
          /\ flash' = Flash("error", "NoExpenseEntries")
          /\ UNCHANGED <<month_summary, ms_seq, session>>]_vars

\* a closure was just refused for a month that has an income, while the
\* user has an expense in another month
C5_Witness ==
    /\ flash.msg = "NoExpenseEntries"
    /\ MonthIncomes(session.user_id, ActiveMonth) # {}
    /\ expenses # {}
    /\ month_summary = {}

(* C6: a successful close-month adds exactly one row to month_summary, with *)
(* a fresh id, for the session's user and active month, whose total is the  *)
(* sum of that user's expenses of that month at that moment (incomes not    *)
(* counted); every earlier row is kept as it was.                           *)
C6_CloseAppends ==
    [][flash'.msg = "MonthClosed" =>
          \E row \in month_summary' :
              /\ row \notin month_summary
              /\ \A old \in month_summary : old.id # row.id
              /\ month_summary' = month_summary \cup {row}
              /\ row.user_id = session.user_id
              /\ <<row.year, row.month>> = ActiveMonth
              /\ row.total = SumAmounts(MonthExpenses(session.user_id, ActiveMonth))]_vars

\* the same month closed twice, before and after a second expense: two rows
\* of different totals
C6_Witness ==
    /\ flash.msg = "MonthClosed"
    /\ \E a, b \in month_summary :
          /\ a.id # b.id
          /\ a.user_id = b.user_id /\ a.year = b.year /\ a.month = b.month
          /\ a.total # b.total

(* C7: after a successful close-month of the active month (y, m) the active *)
(* period is (y, m+1) when m < 12 and (y+1, 1) when m = 12, the             *)
(* last-touched marker is absent and no row of any month is highlighted.    *)
C7_CloseAdvances ==
    [][flash'.msg = "MonthClosed" =>
          /\ session.current_month < 12 =>
                 /\ session'.current_year = session.current_year
                 /\ session'.current_month = session.current_month + 1
          /\ session.current_month = 12 =>
                 /\ session'.current_year = session.current_year + 1
                 /\ session'.current_month = 1
          /\ session'.last_kind_id = NoKey
          /\ \A ym \in ModelMonths :
                 LET rows == RowsAfter(session.user_id, ym)
                 IN  \A j \in 1..Len(rows) : ~rows[j].highlight]_vars

\* closures of November and of December 2024 are recorded, the active period
\* is January 2025 and the entries are still there
C7_Witness ==
    /\ flash.msg = "MonthClosed"
    /\ \E r \in month_summary : r.year = 2024 /\ r.month = 11
    /\ \E r \in month_summary : r.year = 2024 /\ r.month = 12
    /\ ActiveMonth = <<2025, 1>>
    /\ session.last_kind_id = NoKey

(* C8: month_summary is append-only: no step changes or removes a row, and  *)
(* a step that adds rows adds one row and is a successful close-month.      *)
C8_ClosuresAppendOnly ==
    [][/\ month_summary \subseteq month_summary'
       /\ month_summary' # month_summary =>
             /\ flash'.msg = "MonthClosed"
             /\ Cardinality(month_summary') = Cardinality(month_summary) + 1]_vars

\* a closure of a month whose expense has since been deleted, a second
\* account, and nobody logged in
C8_Witness ==
    /\ \E r \in month_summary : MonthExpenses(r.user_id, <<r.year, r.month>>) = {}
    /\ Cardinality(users) = 2
    /\ ~LoggedIn

-----------------------------------------------------------------------------
\* the rows a step inserted: those carrying the id the counter just issued
NewIncomes == {i \in incomes' : i.id > inc_seq}
NewExpenses == {e \in expenses' : e.id > exp_seq}

(* C9 as stated: no add-income request is refused for a missing             *)
(* description, while an add-expense request with an empty description is   *)
(* refused and stores nothing.                                              *)
C9_Original ==
    [][/\ flash'.msg # "IncomeDescRequired"
       /\ flash'.msg = "ExpenseDescRequired" => UNCHANGED <<expenses, exp_seq>>]_vars

(* C9: an add of either kind requires a description: a request refused for  *)
(* an empty or blank description stores nothing, and every row an add       *)
(* inserts carries a non-empty, stripped description that is not the        *)
(* "Income" default; a stored income gets the "Income" default only from an *)
(* edit with an empty description.                                          *)
C9_DescriptionRequired ==
    [][/\ flash'.msg \in {"IncomeDescRequired", "ExpenseDescRequired"} =>
             /\ flash'.cat = "error"
             /\ UNCHANGED <<incomes, expenses, inc_seq, exp_seq, session>>
       /\ \A r \in NewIncomes \cup NewExpenses :
             /\ r.description # <<>>
             /\ r.description = Strip(r.description)
             /\ r.description # INCOME_TEXT
       /\ \A i \in incomes' :
             (i.description = INCOME_TEXT /\ i \notin incomes) =>
                 flash'.msg \in {"IncomeEdited", "AmountInvalid"}]_vars

\* an add-income was just refused for its description, while a stored income
\* carries the "Income" default from an edit
C9_Witness ==
    /\ flash = Flash("error", "IncomeDescRequired")
    /\ \E i \in incomes : i.description = INCOME_TEXT

(* C10: a step answered with a validation error (description missing or     *)
(* amount not accepted) leaves the incomes, the expenses, the closures and  *)
(* the last-touched marker exactly as they were.                            *)
C10_NoPartialWrite ==
    [][flash'.msg \in {"ExpenseDescRequired", "IncomeDescRequired", "EditDescRequired",
                       "AmountInvalid", "IncomeAmountInvalid"} =>
          /\ UNCHANGED <<incomes, expenses, month_summary>>
          /\ session'.last_kind_id = session.last_kind_id]_vars

\* an add-expense was just answered with the amount error, and its row with
\* an infinite amount is stored and marked as last touched
C10_Witness ==
    /\ flash = Flash("error", "AmountInvalid")
    /\ \E e \in expenses :
          e.amount = PInf /\ session.last_kind_id = Key("E", e.id)

-----------------------------------------------------------------------------
(* C11: every stored income and expense has an amount that is not below     *)
(* zero.                                                                    *)
C11_AmountsNonNegative ==
    \A e \in incomes \cup expenses : e.amount = PInf \/ (IsFin(e.amount) /\ e.amount[2] >= 0)

\* an expense added with one negative amount and an income edited to one
C11_Witness ==
    /\ \E e \in expenses : e.amount = Fin(-10)
    /\ \E i \in incomes : i.amount = Fin(-10) /\ flash.msg = "IncomeEdited"

-----------------------------------------------------------------------------
(* C12: an edit leaves the id, the owning user and the timestamp of every   *)
(* entry as they were, changes rows of one table only, and there only the   *)
(* row whose variant and id the request named; naming an id that is not     *)
(* stored changes nothing and is answered like any other edit.              *)
C12_EditFrame ==
    [][LET \* the columns an edit may not touch
           Fixed(e) == [id |-> e.id, user_id |-> e.user_id, date |-> e.date]
           \* a step that is neither an add nor a delete can only be an edit
           EditStep == /\ exp_seq' = exp_seq
                       /\ inc_seq' = inc_seq
                       /\ flash'.msg # "RowDeleted"
       IN
       EditStep =>
          /\ {Fixed(e) : e \in expenses'} = {Fixed(e) : e \in expenses}
          /\ {Fixed(i) : i \in incomes'} = {Fixed(i) : i \in incomes}
          /\ Cardinality(expenses') = Cardinality(expenses)
          /\ Cardinality(incomes') = Cardinality(incomes)
          /\ \A e \in expenses' \ expenses : session'.last_kind_id = Key("E", e.id)
          /\ \A i \in incomes' \ incomes : session'.last_kind_id = Key("I", i.id)
          /\ expenses' = expenses \/ incomes' = incomes]_vars

\* an expense was just edited while a second expense keeps other values
C12_Witness ==
    /\ flash.msg = "ExpenseEdited"
    /\ \E a, b \in expenses :
          /\ session.last_kind_id = Key("E", a.id)
          /\ a.amount = Fin(-10)
          /\ b.id # a.id /\ b.amount = Fin(20)

-----------------------------------------------------------------------------
-----------------------------------------------------------------------------
(* C14: for every user and month, the Detail rows of the aggregation are    *)
(* as many as the entries that user owns in that month; every such income   *)
(* and expense has a row with its key, day, description and amount as       *)
(* stored now, and the last balance is the sum of those incomes minus the   *)
(* sum of those expenses, so no entry of another user or month appears or   *)
(* counts.                                                                  *)
C14_OwnMonthOnly ==
    \A u \in UserIds, ym \in ModelMonths :
        LET det == Details(group_month_rows(u, ym[1], ym[2]))
            \* the stored entries user u owns that are dated in month ym
            own_i == {e \in incomes : /\ e.user_id = u
                                      /\ e.date.year = ym[1]
                                      /\ e.date.month = ym[2]}
            own_e == {e \in expenses : /\ e.user_id = u
                                       /\ e.date.year = ym[1]
                                       /\ e.date.month = ym[2]}
        IN  /\ Len(det) = Cardinality(own_i) + Cardinality(own_e)
            /\ \A i \in own_i : \E j \in 1..Len(det) :
                   /\ det[j].key = Key("I", i.id)
                   /\ det[j].date = DayText(DateOf(i.date))
                   /\ det[j].desc = i.description
                   /\ det[j].income = format_amount_mm(i.amount)
            /\ \A e \in own_e : \E j \in 1..Len(det) :
                   /\ det[j].key = Key("E", e.id)
                   /\ det[j].date = DayText(DateOf(e.date))
                   /\ det[j].desc = e.description
                   /\ det[j].expense = format_amount_mm(e.amount)
            /\ Len(det) > 0 =>
                   det[Len(det)].balance =
                       format_amount_mm(FSub(SumAmounts(own_i), SumAmounts(own_e)))

\* two accounts with an entry each in the same month, one of them edited
C14_Witness ==
    \E e \in expenses, i \in incomes :
        /\ e.user_id # i.user_id
        /\ DateOf(e.date) = DateOf(i.date)
        /\ i.amount = Fin(6) /\ e.amount = Fin(4)

-----------------------------------------------------------------------------
(* C15: stored usernames are non-empty and pairwise distinct; a signup      *)
(* answered with the duplicate-username error creates no account; an        *)
(* account is created only by a signup answered with success, one at a      *)
(* time and under a username no account had; no step changes or removes an  *)
(* account, so no password is changed by a later signup.                    *)
C15_UniqueUsernames ==
    /\ [](\A a, b \in users :
              /\ a.username # <<>>
              /\ a.password # <<>>
              /\ (a.username = b.username \/ a.id = b.id) => a = b)
    /\ [][/\ users \subseteq users'
          /\ flash'.msg = "DuplicateUsername" =>
                flash'.cat = "error" /\ UNCHANGED <<users, user_seq>>
          /\ users' # users =>
                /\ flash' = Flash("ok", "AccountCreated")
                /\ \E n \in users' :
                      /\ users' = users \cup {n}
                      /\ \A o \in users : o.username # n.username /\ o.id # n.id]_vars

\* a signup under a taken username was just refused; three accounts exist,
\* one of them with the second password
C15_Witness ==
    /\ flash = Flash("error", "DuplicateUsername")
    /\ Cardinality(users) = 3
    /\ \E u \in users : u.username = <<"bob">> /\ u.password = <<"x">>

-----------------------------------------------------------------------------
\* x without its commas
RECURSIVE Uncomma(_)
Uncomma(x) ==
    IF x = <<>> THEN <<>>
    ELSE (IF Head(x) = "," THEN <<>> ELSE <<Head(x)>>) \o Uncomma(Tail(x))

\* x without its leading and trailing spaces
RECURSIVE Trimmed(_)
Trimmed(x) ==
    IF x = <<>> THEN <<>>
    ELSE IF x[1] = " " THEN Trimmed(Tail(x))
    ELSE IF x[Len(x)] = " " THEN Trimmed(SubSeq(x, 1, Len(x) - 1))
    ELSE x

(* C16 as stated: en_number_string(mmize(x)) = x for every text x of ASCII  *)
(* digits, commas and spaces.                                               *)
C16_Original == call.stage = "en" => call.res = call.arg

(* C16: en_number_string(mmize(x)) is x with its commas removed and then    *)
(* its leading and trailing spaces removed; it is x itself exactly when x   *)
(* has no comma and no leading or trailing space; mmize(x) itself has no    *)
(* ASCII digit left and the length of x.                                    *)
C16_RoundTrip ==
    LET \* x has no comma and neither starts nor ends with a space
        Plain(x) ==
            /\ \A k \in 1..Len(x) : x[k] # ","
            /\ x # <<>> => ~IsSpace(x[1]) /\ ~IsSpace(x[Len(x)])
    IN
    /\ call.stage = "mmize" =>
          /\ Len(call.res) = Len(call.arg)
          /\ \A k \in 1..Len(call.res) : call.res[k] \notin {"0", "1"}
    /\ call.stage = "en" =>
          /\ call.res = Trimmed(Uncomma(call.arg))
          /\ call.res = call.arg <=> Plain(call.arg)

\* "1,0" has come back as "10"
C16_Witness ==
    /\ call.stage = "en"
    /\ call.arg = <<"1", ",", "0">>
    /\ call.res = <<"1", "0">>

-----------------------------------------------------------------------------
\* the pieces of text between the occurrences of sep, as str.split(sep) gives
RECURSIVE Split(_, _)
Split(text, sep) ==
    IF \A k \in 1..Len(text) : text[k] # sep THEN <<text>>
    ELSE LET at == CHOOSE k \in 1..Len(text) :
                       text[k] = sep /\ \A j \in 1..(k - 1) : text[j] # sep
         IN  <<SubSeq(text, 1, at - 1)>> \o Split(SubSeq(text, at + 1, Len(text)), sep)

-----------------------------------------------------------------------------
\* the sum, from zero, of what the first n Detail rows add to the balance:
\* the stored amount of an income, the negated stored amount of an expense
RECURSIVE Accumulated(_, _)
Accumulated(det, n) ==
    IF n = 0 THEN Zero
    ELSE FAdd(Accumulated(det, n - 1),
              IF det[n].kind = "I" THEN EntryOfRow(det[n]).amount
                                   ELSE FNeg(EntryOfRow(det[n]).amount))

(* C18: the balance of every Detail row is the formatted sum, from zero at  *)
(* the start of the month, of the incomes minus the expenses of all Detail  *)
(* rows up to and including that row, across day boundaries, and it is      *)
(* shown below zero when the sum is.                                        *)
C18_RunningBalance ==
    \A u \in UserIds, ym \in ModelMonths :
        LET det == Details(group_month_rows(u, ym[1], ym[2]))
        IN  \A j \in 1..Len(det) :
                det[j].balance = format_amount_mm(Accumulated(det, j))

\* a balance below zero is carried into the next day and stays below zero
\* after that day's income
C18_Witness ==
    LET det == Details(group_month_rows(1, 2024, 12))
    IN  /\ Len(det) = 3
        /\ det[1].kind = "E" /\ det[2].kind = "E" /\ det[3].kind = "I"
        /\ det[2].date # det[3].date
        /\ det[2].balance = <<"-", "M2">>
        /\ det[3].balance = <<"-", "M1">>

\* C19: a request made in the session of one user never changes or removes
\* an income or expense entry owned by another user: every entry of another
\* owner is in its table, unchanged, after the step.
C19_OwnershipIsolation ==
    [][LoggedIn =>
          /\ \A e \in incomes : e.user_id # session.user_id => e \in incomes'
          /\ \A e \in expenses : e.user_id # session.user_id => e \in expenses']_vars

\* The session of user 2 has just edited expense 1, which user 1 owns.
C19_Witness ==
    /\ session.user_id = 2
    /\ session.last_kind_id = Key("E", 1)
    /\ flash = Flash("ok", "ExpenseEdited")
    /\ \E e \in expenses : e.id = 1 /\ e.user_id = 1

\* C20: when the close-month request of one session runs between the
\* requests of another session of the same user, every closure row it
\* records is for a month that has an expense entry at the instant of
\* recording, and the row's total is the month's expense sum at that instant.
C20_AtomicClosure ==
    [][\A r \in month_summary' \ month_summary :
          /\ MonthRows(expenses, r.user_id, r.year, r.month) # {}
          /\ r.total = get_total_expenses_by_month(r.user_id, r.year, r.month)]_vars

\* A close-month request is past its emptiness check and its SUM, and the
\* month has no expense left: its INSERT comes next.
C20_Witness ==
    /\ closing.pc = "summed"
    /\ closing.total # Zero
    /\ MonthRows(expenses, closing.user_id, closing.year, closing.month) = {}

====
